---- MODULE Spec2Model ----
(***************************************************************************)
(* CheckpointStorage (packages/arb-avm-cpp/avm/src/checkpointstorage.cpp): *)
(* a reference-counted store over a RocksDB TransactionDB.  Every public   *)
(* call first reads the record with db->Get (getStoredValue) and then, in  *)
(* a separate transaction, puts or deletes it (saveValueToDb /             *)
(* deleteValueFromDb).  Callers are threads; the only points at which      *)
(* they interleave are the engine calls, so a mutating call is two steps:  *)
(* its lookup and its commit.                                              *)
(***************************************************************************)
EXTENDS Integers, Sequences, FiniteSets, TLC

(* ---- bounds ---- *)
NumProcs == 2
MaxCalls == 2
SeqCalls == 4
EngCalls == 2
MaxValueLen == 2
LifeCalls == 2
MaxOpens == 2

Procs == 1..NumProcs
Keys == {"k1", "k2"}
Values == {<< >>, <<7>>}

(* ---- int (32-bit signed) ---- *)
IntMax == 2147483647
IntMin == -IntMax - 1

\* the four bytes of an int in memory (two's complement, little-endian host);
\* m is the low 31 bits, the sign bit is the top bit of the last byte
IntToBytes(n) ==
    LET m == IF n < 0 THEN n - IntMin ELSE n
        sign == IF n < 0 THEN 128 ELSE 0
    IN  << m % 256, (m \div 256) % 256, (m \div 65536) % 256, (m \div 16777216) + sign >>

BytesToInt(b) ==
    LET m == b[1] + 256 * b[2] + 65536 * b[3] + 16777216 * (b[4] % 128)
    IN  IF b[4] >= 128 THEN m + IntMin ELSE m

\* results.reference_count + 1 on an int: signed overflow is undefined; the
\* builds either wrap (two's complement) or trap (-ftrapv, sanitizers)
PlusOne(c) ==
    IF c < IntMax THEN {[trap |-> FALSE, val |-> c + 1]}
    ELSE {[trap |-> FALSE, val |-> IntMin], [trap |-> TRUE, val |-> 0]}

(* ---- record codec ---- *)
\* the count bytes inserted at value.end() instead of value.begin()
serializeCountAndValue_Append(count, value) == value \o IntToBytes(count)

serializeCountAndValue(count, value) == IntToBytes(count) \o value

\* std::string::substr(pos, n): the characters from pos, at most n of them
Substr(s, pos, n) ==
    LET last == IF pos + n < Len(s) THEN pos + n ELSE Len(s)
    IN  SubSeq(s, pos + 1, last)

\* a substr whose length forgets that the count bytes are skipped
parseCountAndValue_ShortValue(string_value) ==
    IF string_value = << >> THEN <<0, << >> >>
    ELSE << BytesToInt(SubSeq(string_value, 1, 4)),
            Substr(string_value, 4, Len(string_value) - 5) >>

\* defined for the empty string and for strings of at least sizeof(int) bytes
parseCountAndValue(string_value) ==
    IF string_value = << >> THEN <<0, << >> >>
    ELSE << BytesToInt(SubSeq(string_value, 1, 4)),
            Substr(string_value, 4, Len(string_value) - 1) >>

(* ---- engine ---- *)
\* what db->Get finds for a key that has no entry (no byte string has -1 in it)
Absent == <<-1>>

\* what db->Get gives when the engine fails the read: a status that is neither
\* ok nor NotFound, and no value
IOError == <<-2>>

\* get_status.ok()
GetOk(raw) == raw # Absent /\ raw # IOError

\* db, db0: contents of the database now and at construction; pc, call, pend:
\* the callers; log: the finished calls; aborted: the process was ended by a
\* trap or a failed assert; ndebug: the build compiles the asserts out;
\* store: the CheckpointStorage object; codec: a run of the record codec
VARIABLES db, db0, pc, call, pend, log, aborted, ndebug, store, codec
vars == <<db, db0, pc, call, pend, log, aborted, ndebug, store, codec>>
env == <<ndebug, store, codec>>

NoCall == [op |-> "none", key |-> "k1", value |-> << >>, pre |-> Absent, txn |-> "OK"]
NoCodec == [stage |-> "none", count |-> 0, value |-> << >>, bytes |-> << >>, parsed |-> <<0, << >> >>]
Constructed == [open |-> TRUE, opens |-> 1]
NoPend == [kind |-> "none", count |-> 0, value |-> << >>]

\* the found record returned with the count of the not-found result
getStoredValue_NoCount(raw) ==
    IF GetOk(raw)
    THEN LET tuple == parseCountAndValue(raw)
         IN  [reference_count |-> 0, status |-> "OK", stored_value |-> tuple[2]]
    ELSE [reference_count |-> 0, status |-> "NotFound", stored_value |-> << >>]

\* GetResults of getStoredValue for what db->Get read
getStoredValue(raw) ==
    IF GetOk(raw)
    THEN LET tuple == parseCountAndValue(raw)
         IN  [reference_count |-> tuple[1], status |-> "OK", stored_value |-> tuple[2]]
    ELSE [reference_count |-> 0, status |-> "NotFound", stored_value |-> << >>]

InitDb(counts) ==
    [Keys -> {Absent} \cup {serializeCountAndValue(c, v) : c \in counts, v \in Values}]

InitWith(counts) ==
    /\ db \in InitDb(counts)
    /\ db0 = db
    /\ pc = [p \in Procs |-> "idle"]
    /\ call = [p \in Procs |-> NoCall]
    /\ pend = [p \in Procs |-> NoPend]
    /\ log = << >>
    /\ aborted = FALSE
    /\ ndebug = FALSE
    /\ store = Constructed
    /\ codec = NoCodec

Init == InitWith({1, IntMax})

(* ---- the decisions of the public calls, from what the lookup returned ---- *)
Return(count, status) == [kind |-> "return", count |-> count, status |-> status, value |-> << >>]
Put(count, value) == [kind |-> "put", count |-> count, status |-> "OK", value |-> value]
Trap == [kind |-> "trap", count |-> 0, status |-> "OK", value |-> << >>]
Remove == [kind |-> "delete", count |-> 0, status |-> "OK", value |-> << >>]

\* a put of the incremented count, for each outcome of the addition
PutPlusOne(c, value) ==
    {IF o.trap THEN Trap ELSE Put(o.val, value) : o \in PlusOne(c)}

\* stores the count it read, without the increment
incrementReference_NoIncrement(results) ==
    IF results.status = "OK"
    THEN {Put(results.reference_count, results.stored_value)}
    ELSE {Return(0, results.status)}

\* treats a missing record as a first reference
incrementReference_Creates(results) ==
    IF results.status = "OK"
    THEN PutPlusOne(results.reference_count, results.stored_value)
    ELSE {Put(1, results.stored_value)}

incrementReference(results) ==
    IF results.status = "OK"
    THEN PutPlusOne(results.reference_count, results.stored_value)
    ELSE {Return(0, results.status)}

\* no comparison of the stored value with the saved one
saveValue_NoCompare(results, value) ==
    IF results.status = "OK"
    THEN PutPlusOne(results.reference_count, value)
    ELSE {Put(1, value)}

saveValue(results, value) ==
    IF results.status = "OK"
    THEN IF results.stored_value # value
         THEN {Return(-1, "InvalidArgument")}
         ELSE PutPlusOne(results.reference_count, value)
    ELSE {Put(1, value)}

\* removes at reference_count < 1 instead of < 2
deleteStoredValue_LateRemove(results) ==
    IF results.status = "OK"
    THEN IF results.reference_count < 1
         THEN {Remove}
         ELSE {Put(results.reference_count - 1, results.stored_value)}
    ELSE {Return(0, "NotFound")}

deleteStoredValue(results) ==
    IF results.status = "OK"
    THEN IF results.reference_count < 2
         THEN {Remove}
         ELSE {Put(results.reference_count - 1, results.stored_value)}
    ELSE {Return(0, "NotFound")}

\* the test of the status inverted
saveValueWithRefCount_Inverted(updated_ref_count, status) ==
    IF status # "OK"
    THEN [count |-> updated_ref_count, status |-> status]
    ELSE [count |-> 0, status |-> "NotFound"]

\* SaveResults of saveValueWithRefCount for the status of saveValueToDb
saveValueWithRefCount(updated_ref_count, status) ==
    IF status = "OK"
    THEN [count |-> updated_ref_count, status |-> status]
    ELSE [count |-> 0, status |-> "NotFound"]

(* ---- calls ---- *)
Started == Len(log) + Cardinality({p \in Procs : pc[p] = "commit"})

\* a finished call: its arguments, what its lookup read (pre), how its
\* transaction went (txn), what it returned (status, count, out) and the record
\* of its key when it returned (post)
Entry(p, c, status, count, out, post) ==
    [proc |-> p, op |-> c.op, key |-> c.key, value |-> c.value, pre |-> c.pre,
     txn |-> c.txn, status |-> status, count |-> count, out |-> out, post |-> post]

\* the part of a mutating call up to its transaction: db->Get, then the decision d
Lookup(p, c, d) ==
    /\ db' = db
    /\ db0' = db0
    /\ UNCHANGED env
    /\ CASE d.kind = "return" ->
              /\ log' = Append(log, Entry(p, c, d.status, d.count, << >>, db[c.key]))
              /\ UNCHANGED <<pc, call, pend, aborted>>
         [] d.kind = "trap" ->
              /\ aborted' = TRUE
              /\ UNCHANGED <<pc, call, pend, log>>
         [] OTHER ->
              /\ pc' = [pc EXCEPT ![p] = "commit"]
              /\ call' = [call EXCEPT ![p] = c]
              /\ pend' = [pend EXCEPT ![p] = [kind |-> d.kind, count |-> d.count, value |-> d.value]]
              /\ UNCHANGED <<log, aborted>>

CanStart(p, budget) == ~aborted /\ pc[p] = "idle" /\ Started < budget

SaveLookup(p, k, v, budget) ==
    /\ CanStart(p, budget)
    /\ \E d \in saveValue(getStoredValue(db[k]), v) :
          Lookup(p, [op |-> "save", key |-> k, value |-> v, pre |-> db[k], txn |-> "OK"], d)

IncrementLookup(p, k, budget) ==
    /\ CanStart(p, budget)
    /\ \E d \in incrementReference(getStoredValue(db[k])) :
          Lookup(p, [op |-> "increment", key |-> k, value |-> << >>, pre |-> db[k], txn |-> "OK"], d)

DeleteLookup(p, k, budget) ==
    /\ CanStart(p, budget)
    /\ \E d \in deleteStoredValue(getStoredValue(db[k])) :
          Lookup(p, [op |-> "delete", key |-> k, value |-> << >>, pre |-> db[k], txn |-> "OK"], d)

\* getStoredValue as the public Get: one db->Get
Get(p, k, budget) ==
    /\ CanStart(p, budget)
    /\ LET results == getStoredValue(db[k])
           c == [op |-> "get", key |-> k, value |-> << >>, pre |-> db[k], txn |-> "OK"]
       IN  log' = Append(log, Entry(p, c, results.status, results.reference_count,
                                    results.stored_value, db[k]))
    /\ UNCHANGED <<db, db0, pc, call, pend, aborted, env>>

\* the return of a call c after its transaction
FinishWith(p, c, status, count) ==
    /\ log' = Append(log, Entry(p, c, status, count, << >>, db'[c.key]))
    /\ pc' = [pc EXCEPT ![p] = "idle"]
    /\ call' = [call EXCEPT ![p] = NoCall]
    /\ pend' = [pend EXCEPT ![p] = NoPend]
    /\ UNCHANGED <<db0, aborted, env>>

Finish(p, status, count) == FinishWith(p, call[p], status, count)

\* the put made under a key that is not the one passed in
saveValueToDb_WrongKey(value, key) == db' = [db EXCEPT !["k1"] = value]

\* saveValueToDb: one transaction that puts the serialized record and commits
saveValueToDb(value, key) == db' = [db EXCEPT ![key] = value]

\* deleteValueFromDb: one transaction that deletes the key and commits
deleteValueFromDb(key) == db' = [db EXCEPT ![key] = Absent]

\* saveValueWithRefCount and the return of its caller
PutCommit(p) ==
    /\ ~aborted
    /\ pc[p] = "commit"
    /\ pend[p].kind = "put"
    /\ saveValueToDb(serializeCountAndValue(pend[p].count, pend[p].value), call[p].key)
    /\ LET save_results == saveValueWithRefCount(pend[p].count, "OK")
       IN  IF call[p].op = "delete"
           THEN Finish(p, save_results.status, pend[p].count)
           ELSE Finish(p, save_results.status, save_results.count)

\* the removing branch of deleteStoredValue
DeleteCommit(p) ==
    /\ ~aborted
    /\ pc[p] = "commit"
    /\ pend[p].kind = "delete"
    /\ deleteValueFromDb(call[p].key)
    /\ Finish(p, "OK", 0)

(* ---- concurrent callers ---- *)
DoSave == \E p \in Procs, k \in Keys, v \in Values : SaveLookup(p, k, v, MaxCalls)
DoIncrement == \E p \in Procs, k \in Keys : IncrementLookup(p, k, MaxCalls)
DoDelete == \E p \in Procs, k \in Keys : DeleteLookup(p, k, MaxCalls)
DoGet == \E p \in Procs, k \in Keys : Get(p, k, MaxCalls)
DoPutCommit == \E p \in Procs : PutCommit(p)
DoDeleteCommit == \E p \in Procs : DeleteCommit(p)

Next == DoSave \/ DoIncrement \/ DoDelete \/ DoGet \/ DoPutCommit \/ DoDeleteCommit

Spec == Init /\ [][Next]_vars

(* ---- one caller: every call finishes before the next starts ---- *)
SeqInit == InitWith({2})

SeqSave == \E k \in Keys, v \in Values : SaveLookup(1, k, v, SeqCalls)
SeqIncrement == \E k \in Keys : IncrementLookup(1, k, SeqCalls)
SeqDelete == \E k \in Keys : DeleteLookup(1, k, SeqCalls)
SeqGet == \E k \in Keys : Get(1, k, SeqCalls)
SeqPutCommit == PutCommit(1)
SeqDeleteCommit == DeleteCommit(1)

SeqNext == SeqSave \/ SeqIncrement \/ SeqDelete \/ SeqGet \/ SeqPutCommit \/ SeqDeleteCommit

SeqSpec == SeqInit /\ [][SeqNext]_vars


(* ---- one caller over an engine whose reads and transactions can fail ---- *)
EngineStatus == {"OK", "IOError"}

\* the lookups when db->Get fails: getStoredValue sees a status that is not ok
SaveLookupFail(p, k, v, budget) ==
    /\ CanStart(p, budget)
    /\ \E d \in saveValue(getStoredValue(IOError), v) :
          Lookup(p, [op |-> "save", key |-> k, value |-> v, pre |-> IOError, txn |-> "OK"], d)

IncrementLookupFail(p, k, budget) ==
    /\ CanStart(p, budget)
    /\ \E d \in incrementReference(getStoredValue(IOError)) :
          Lookup(p, [op |-> "increment", key |-> k, value |-> << >>, pre |-> IOError, txn |-> "OK"], d)

DeleteLookupFail(p, k, budget) ==
    /\ CanStart(p, budget)
    /\ \E d \in deleteStoredValue(getStoredValue(IOError)) :
          Lookup(p, [op |-> "delete", key |-> k, value |-> << >>, pre |-> IOError, txn |-> "OK"], d)

GetFail(p, k, budget) ==
    /\ CanStart(p, budget)
    /\ LET results == getStoredValue(IOError)
           c == [op |-> "get", key |-> k, value |-> << >>, pre |-> IOError, txn |-> "OK"]
       IN  log' = Append(log, Entry(p, c, results.status, results.reference_count,
                                    results.stored_value, db[k]))
    /\ UNCHANGED <<db, db0, pc, call, pend, aborted, env>>

\* assert(put_status.ok()) / assert(commit_status.ok()) in a build with asserts
AssertFails ==
    /\ ~ndebug
    /\ aborted' = TRUE
    /\ UNCHANGED <<db, db0, pc, call, pend, log, env>>

\* what a transaction that did not go through leaves and returns when the
\* asserts are compiled out: nothing is written (a failed Put adds nothing to
\* the transaction, a failed Commit writes nothing) and commit_status is returned
TxnFailed(put_status, commit_status) ==
    IF commit_status = "OK" THEN "PutFailed" ELSE "CommitFailed"

\* saveValueToDb when Put or Commit fails, and saveValueWithRefCount after it
PutCommitFail(p, put_status, commit_status) ==
    /\ ~aborted
    /\ pc[p] = "commit"
    /\ pend[p].kind = "put"
    /\ put_status # "OK" \/ commit_status # "OK"
    /\ \/ AssertFails
       \/ /\ ndebug
          /\ db' = db
          /\ LET save_results == saveValueWithRefCount(pend[p].count, commit_status)
                 c == [call[p] EXCEPT !.txn = TxnFailed(put_status, commit_status)]
             IN  IF call[p].op = "delete"
                 THEN FinishWith(p, c, save_results.status, pend[p].count)
                 ELSE FinishWith(p, c, save_results.status, save_results.count)

\* deleteValueFromDb when Delete or Commit fails, and the return of deleteStoredValue
DeleteCommitFail(p, delete_status, commit_status) ==
    /\ ~aborted
    /\ pc[p] = "commit"
    /\ pend[p].kind = "delete"
    /\ delete_status # "OK" \/ commit_status # "OK"
    /\ \/ AssertFails
       \/ /\ ndebug
          /\ db' = db
          /\ FinishWith(p, [call[p] EXCEPT !.txn = TxnFailed(delete_status, commit_status)],
                        commit_status, 0)

EngInit ==
    /\ db \in InitDb({2})
    /\ db0 = db
    /\ pc = [p \in Procs |-> "idle"]
    /\ call = [p \in Procs |-> NoCall]
    /\ pend = [p \in Procs |-> NoPend]
    /\ log = << >>
    /\ aborted = FALSE
    /\ ndebug \in BOOLEAN
    /\ store = Constructed
    /\ codec = NoCodec

EngSave == \E k \in Keys, v \in Values : SaveLookup(1, k, v, EngCalls)
EngIncrement == \E k \in Keys : IncrementLookup(1, k, EngCalls)
EngDelete == \E k \in Keys : DeleteLookup(1, k, EngCalls)
EngGet == \E k \in Keys : Get(1, k, EngCalls)
EngPutCommit == PutCommit(1)
EngDeleteCommit == DeleteCommit(1)
EngSaveFail == \E k \in Keys, v \in Values : SaveLookupFail(1, k, v, EngCalls)
EngIncrementFail == \E k \in Keys : IncrementLookupFail(1, k, EngCalls)
EngDeleteFail == \E k \in Keys : DeleteLookupFail(1, k, EngCalls)
EngGetFail == \E k \in Keys : GetFail(1, k, EngCalls)
EngPutCommitFail == \E ps, cs \in EngineStatus : PutCommitFail(1, ps, cs)
EngDeleteCommitFail == \E ds, cs \in EngineStatus : DeleteCommitFail(1, ds, cs)

EngNext ==
    \/ EngSave \/ EngIncrement \/ EngDelete \/ EngGet \/ EngPutCommit \/ EngDeleteCommit
    \/ EngSaveFail \/ EngIncrementFail \/ EngDeleteFail \/ EngGetFail
    \/ EngPutCommitFail \/ EngDeleteCommitFail

EngSpec == EngInit /\ [][EngNext]_vars

(* ---- the record codec on its own ---- *)
CodecCounts == {IntMin, -65536, -1, 0, 1, 255, 256, 65536, 16777216, IntMax}
CodecBytes == {0, 1, 255}
CodecValues == UNION {[1..n -> CodecBytes] : n \in 0..MaxValueLen}

CodecInit ==
    /\ db = [k \in Keys |-> Absent]
    /\ db0 = db
    /\ pc = [p \in Procs |-> "idle"]
    /\ call = [p \in Procs |-> NoCall]
    /\ pend = [p \in Procs |-> NoPend]
    /\ log = << >>
    /\ aborted = FALSE
    /\ ndebug = FALSE
    /\ store = Constructed
    /\ codec \in {[NoCodec EXCEPT !.stage = "input", !.count = c, !.value = v] :
                      c \in CodecCounts, v \in CodecValues}

Serialize ==
    /\ codec.stage = "input"
    /\ codec' = [codec EXCEPT !.stage = "serialized",
                              !.bytes = serializeCountAndValue(codec.count, codec.value)]
    /\ UNCHANGED <<db, db0, pc, call, pend, log, aborted, ndebug, store>>

Parse ==
    /\ codec.stage = "serialized"
    /\ codec' = [codec EXCEPT !.stage = "parsed", !.parsed = parseCountAndValue(codec.bytes)]
    /\ UNCHANGED <<db, db0, pc, call, pend, log, aborted, ndebug, store>>

CodecNext == Serialize \/ Parse

CodecSpec == CodecInit /\ [][CodecNext]_vars

(* ---- the store object: destroyed and constructed again on the same path ---- *)
LifeInit == InitWith({1})

\* ~CheckpointStorage: Close, reset of the handle, DestroyDB(txn_db_path)
Destructor ==
    /\ store.open
    /\ ~aborted
    /\ \A p \in Procs : pc[p] = "idle"
    /\ store' = [store EXCEPT !.open = FALSE]
    /\ db' = [k \in Keys |-> Absent]
    /\ UNCHANGED <<db0, pc, call, pend, log, aborted, ndebug, codec>>

\* CheckpointStorage(db_path): TransactionDB::Open with create_if_missing
Constructor ==
    /\ ~store.open
    /\ store.opens < MaxOpens
    /\ store' = [open |-> TRUE, opens |-> store.opens + 1]
    /\ db' = db
    /\ UNCHANGED <<db0, pc, call, pend, log, aborted, ndebug, codec>>

LifeSave == store.open /\ \E k \in Keys, v \in Values : SaveLookup(1, k, v, LifeCalls)
LifeIncrement == store.open /\ \E k \in Keys : IncrementLookup(1, k, LifeCalls)
LifeDelete == store.open /\ \E k \in Keys : DeleteLookup(1, k, LifeCalls)
LifeGet == store.open /\ \E k \in Keys : Get(1, k, LifeCalls)
LifePutCommit == store.open /\ PutCommit(1)
LifeDeleteCommit == store.open /\ DeleteCommit(1)

LifeNext ==
    \/ LifeSave \/ LifeIncrement \/ LifeDelete \/ LifeGet \/ LifePutCommit \/ LifeDeleteCommit
    \/ Destructor \/ Constructor

LifeSpec == LifeInit /\ [][LifeNext]_vars

(* ---- reading the state ---- *)
Present(raw) == raw # Absent
CountOf(raw) == parseCountAndValue(raw)[1]
ValueOf(raw) == parseCountAndValue(raw)[2]
AllIdle == \A p \in Procs : pc[p] = "idle"
Calls == 1..Len(log)
Succeeded(i, op, k) == log[i].op = op /\ log[i].key = k /\ log[i].status = "OK"
NumSucceeded(op, k) == Cardinality({i \in Calls : Succeeded(i, op, k)})

\* C1: no lost updates. When the only calls are N IncrementReference calls on a
\* key whose record had count c at the start (c + N within the int range), and
\* all have finished, every call succeeded, the returned counts are pairwise
\* distinct and the stored count is c + N.
C1_NoLostUpdates ==
    \A k \in Keys :
        ( /\ AllIdle
          /\ ~aborted
          /\ Len(log) >= 1
          /\ Present(db0[k])
          /\ CountOf(db0[k]) <= IntMax - Len(log)
          /\ \A i \in Calls : log[i].op = "increment" /\ log[i].key = k )
        => /\ \A i \in Calls : log[i].status = "OK"
           /\ \A i, j \in Calls : i # j => log[i].count # log[j].count
           /\ Present(db[k])
           /\ CountOf(db[k]) = CountOf(db0[k]) + Len(log)

\* C2: atomic read-modify-write. While a mutating call is between its lookup
\* and its commit, the record of its key is not changed by any other call.
C2_AtomicReadModifyWrite ==
    [][\A p \in Procs :
          (pc[p] = "commit" /\ pc'[p] = "commit") => db'[call[p].key] = db[call[p].key]]_vars

\* C3: a record is removed only at zero. For a key with no record at the start,
\* once all calls have finished the record is present exactly when successful
\* Save + successful IncrementReference - successful Delete >= 1, and then the
\* stored count is that difference.
C3_Outstanding(k) ==
    NumSucceeded("save", k) + NumSucceeded("increment", k) - NumSucceeded("delete", k)

C3_RemovedOnlyAtZero ==
    \A k \in Keys :
        (AllIdle /\ ~aborted /\ ~Present(db0[k]))
        => /\ Present(db[k]) <=> C3_Outstanding(k) >= 1
           /\ Present(db[k]) => CountOf(db[k]) = C3_Outstanding(k)

\* C4: content addressing. The value stored under a key is never replaced by a
\* different value, and no Save of a value succeeds at a moment when the record
\* of its key holds a different value.
C4_SaveFinishes(p) == pc[p] = "commit" /\ pc'[p] = "idle" /\ call[p].op = "save"

C4_ContentAddressing ==
    [][/\ \A k \in Keys :
             (Present(db[k]) /\ Present(db'[k])) => ValueOf(db'[k]) = ValueOf(db[k])
       /\ \A p \in Procs :
             (C4_SaveFinishes(p) /\ Present(db[call[p].key]))
             => ValueOf(db[call[p].key]) = call[p].value]_vars

\* C5: every record physically present in the store has reference_count >= 1.
C5_CountAtLeastOne ==
    \A k \in Keys : Present(db[k]) => CountOf(db[k]) >= 1

(* ---- one caller (SeqSpec): log[i] is the i-th call, log[i + 1] the call that follows it ---- *)
IsCall(i, op, k) == i \in Calls /\ log[i].op = op /\ log[i].key = k
IsSave(i, k, v) == IsCall(i, "save", k) /\ log[i].value = v
Returned(i, status, count) == log[i].status = status /\ log[i].count = count
GetReturned(i, status, count, out) == Returned(i, status, count) /\ log[i].out = out

\* C6: content-address enforcement. A Save(key, v2) on a key whose record is
\* (v1, c) with v1 # v2 fails with InvalidArgument and leaves the record, and a
\* Get(key) that follows returns (v1, c); after a first Save(key, v1) on an
\* absent key and a failed Save(key, v2), Get(key) returns (v1, 1).
C6_ContentAddressEnforced ==
    \A i \in Calls :
        LET k == log[i].key
        IN  /\ ( /\ IsCall(i, "save", k)
                 /\ Present(log[i].pre)
                 /\ ValueOf(log[i].pre) # log[i].value )
               => /\ log[i].status = "InvalidArgument"
                  /\ log[i].post = log[i].pre
                  /\ IsCall(i + 1, "get", k)
                     => GetReturned(i + 1, "OK", CountOf(log[i].pre), ValueOf(log[i].pre))
            /\ ( /\ IsCall(i, "save", k)
                 /\ ~Present(log[i].pre)
                 /\ IsCall(i + 1, "save", k)
                 /\ log[i + 1].value # log[i].value
                 /\ IsCall(i + 2, "get", k) )
               => /\ log[i + 1].status = "InvalidArgument"
                  /\ GetReturned(i + 2, "OK", 1, log[i].value)

C6_Witness ==
    \E i \in Calls : \E k \in Keys :
        /\ IsCall(i, "save", k) /\ ~Present(log[i].pre)
        /\ IsCall(i + 1, "save", k) /\ log[i + 1].value # log[i].value
        /\ log[i + 1].status = "InvalidArgument"
        /\ IsCall(i + 2, "get", k) /\ log[i + 2].status = "OK"

\* C7: round trip. A Save(key, value) on a key with no record succeeds and
\* returns 1, and a Get(key) that follows returns (value, 1).
C7_RoundTrip ==
    \A i \in Calls :
        (log[i].op = "save" /\ ~Present(log[i].pre))
        => /\ Returned(i, "OK", 1)
           /\ IsCall(i + 1, "get", log[i].key) => GetReturned(i + 1, "OK", 1, log[i].value)

C7_Witness ==
    \A v \in Values : \E i \in Calls : \E k \in Keys :
        /\ IsSave(i, k, v) /\ ~Present(log[i].pre)
        /\ IsCall(i + 1, "get", k) /\ log[i + 1].out = v

\* C8: refcount growth. In a run of calls j..i on one key that starts with
\* Save(key, v) on an absent key and continues with Save(key, v) or
\* IncrementReference(key), every call succeeds, the n-th call of the run returns
\* n, and a Get(key) that follows the run returns (v, number of calls).
C8_Grows(m, k, v) == IsSave(m, k, v) \/ IsCall(m, "increment", k)

C8_Run(j, i, k, v) ==
    /\ j <= i
    /\ IsSave(j, k, v)
    /\ ~Present(log[j].pre)
    /\ \A m \in (j + 1)..i : C8_Grows(m, k, v)

C8_RefcountGrowth ==
    \A j \in Calls : \A i \in j..Len(log) :
        LET k == log[j].key
            v == log[j].value
        IN  C8_Run(j, i, k, v)
            => /\ \A m \in j..i : Returned(m, "OK", m - j + 1)
               /\ IsCall(i + 1, "get", k) => GetReturned(i + 1, "OK", i - j + 1, v)

C8_Witness ==
    \E j \in Calls : \E k \in Keys : \E v \in Values :
        /\ C8_Run(j, j + 2, k, v)
        /\ IsSave(j + 1, k, v)
        /\ IsCall(j + 2, "increment", k)
        /\ IsCall(j + 3, "get", k)
        /\ log[j + 3].count = 3

\* C9: refcount decay and removal. From a record (v, N), N >= 1, consecutive
\* Delete(key) calls succeed; the n-th returns N - n and, while N - n >= 1,
\* leaves the record (v, N - n); the N-th returns 0 and removes the record; a
\* Get(key) or a Delete(key) that follows then fails with NotFound.
C9_Deletes(j, n, k) == \A m \in j..(j + n - 1) : IsCall(m, "delete", k)

C9_Gone(i, k) ==
    /\ IsCall(i, "get", k) => GetReturned(i, "NotFound", 0, << >>) /\ log[i].post = Absent
    /\ IsCall(i, "delete", k) => Returned(i, "NotFound", 0) /\ log[i].post = Absent

C9_RefcountDecay ==
    \A j \in Calls :
        (log[j].op = "delete" /\ Present(log[j].pre) /\ CountOf(log[j].pre) >= 1)
        => LET k == log[j].key
               N == CountOf(log[j].pre)
               v == ValueOf(log[j].pre)
           IN  \A n \in 1..(Len(log) - j + 1) :
                   (n <= N /\ C9_Deletes(j, n, k))
                   => LET i == j + n - 1
                      IN  /\ Returned(i, "OK", N - n)
                          /\ n < N => log[i].post = serializeCountAndValue(N - n, v)
                          /\ n = N => /\ log[i].post = Absent
                                      /\ C9_Gone(i + 1, k)
                                      /\ IsCall(i + 1, "get", k) => C9_Gone(i + 2, k)

C9_Witness ==
    \E j \in Calls : \E k \in Keys :
        /\ Present(log[j].pre) /\ CountOf(log[j].pre) = 2
        /\ C9_Deletes(j, 2, k)
        /\ log[j + 1].count = 0
        /\ IsCall(j + 2, "get", k) /\ log[j + 2].status = "NotFound"
        /\ IsCall(j + 3, "delete", k) /\ log[j + 3].status = "NotFound"

\* C10: IncrementReference(key) on a key with no record (never saved, or fully
\* deleted) fails with NotFound and creates no record: a Get(key) that follows
\* fails with NotFound.
C10_IncrementUnknownFails ==
    \A i \in Calls :
        (log[i].op = "increment" /\ ~Present(log[i].pre))
        => /\ log[i].status = "NotFound"
           /\ log[i].post = Absent
           /\ IsCall(i + 1, "get", log[i].key) => GetReturned(i + 1, "NotFound", 0, << >>)

\* an IncrementReference and a Get of a key whose last reference was deleted
C10_Witness ==
    \E i \in Calls : \E k \in Keys :
        /\ IsCall(i, "delete", k) /\ Returned(i, "OK", 0)
        /\ IsCall(i + 1, "increment", k) /\ log[i + 1].status = "NotFound"
        /\ IsCall(i + 2, "get", k) /\ log[i + 2].status = "NotFound"

\* C11: IncrementReference never creates content. The commit of an
\* IncrementReference never turns a key that has no record at the moment of
\* the commit into a key that has one.
C11_IncrementCommits(p) ==
    pc[p] = "commit" /\ pc'[p] = "idle" /\ call[p].op = "increment"

C11_IncrementNeverCreates ==
    [][\A p \in Procs :
          (C11_IncrementCommits(p) /\ ~Present(db[call[p].key]))
          => ~Present(db'[call[p].key])]_vars

\* C12: idempotent failure. A Save that fails with InvalidArgument and a Delete
\* or IncrementReference that fails with NotFound leave the whole store
\* unchanged: the step in which the call returns changes no record, the record
\* of its key is the one its lookup read, and a Get(key) after the failed call
\* returns what a Get(key) before it returned.
C12_Failed(e) ==
    \/ e.op = "save" /\ e.status = "InvalidArgument"
    \/ e.op \in {"delete", "increment"} /\ e.status = "NotFound"

C12_SameAnswer(i, j) ==
    /\ log[i].status = log[j].status
    /\ log[i].count = log[j].count
    /\ log[i].out = log[j].out

C12_FailureKeepsRecord ==
    \A i \in Calls :
        C12_Failed(log[i])
        => /\ log[i].post = log[i].pre
           /\ (IsCall(i - 1, "get", log[i].key) /\ IsCall(i + 1, "get", log[i].key))
              => C12_SameAnswer(i - 1, i + 1)

C12_IdempotentFailure ==
    /\ [][(Len(log') = Len(log) + 1 /\ C12_Failed(log'[Len(log')])) => db' = db]_vars
    /\ []C12_FailureKeepsRecord

C12_Witness ==
    \E i \in Calls : \E k \in Keys :
        /\ IsCall(i, "get", k) /\ log[i].status = "OK"
        /\ IsCall(i + 1, "save", k) /\ log[i + 1].status = "InvalidArgument"
        /\ IsCall(i + 2, "get", k)
        /\ i + 3 \in Calls
        /\ log[i + 3].op \in {"delete", "increment"} /\ log[i + 3].status = "NotFound"

(* ---- one caller over a failing engine (EngSpec) ---- *)
\* the record of the key of call i when the call started
Before(i) ==
    LET prev == {j \in 1..(i - 1) : log[j].key = log[i].key}
    IN  IF prev = {} THEN db0[log[i].key]
        ELSE log[CHOOSE j \in prev : \A m \in prev : m <= j].post

EngineFailed(e) == e.pre = IOError \/ e.txn # "OK"
Mutating(e) == e.op \in {"save", "increment", "delete"}

\* C13: engine failures propagate unchanged. A call during which the engine
\* failed the lookup, the put, the delete or the commit returns the engine's
\* error; it does not return NotFound, and a Save whose lookup failed does not
\* write a record with count 1.
C13_EngineErrorsPropagate ==
    \A i \in Calls :
        EngineFailed(log[i])
        => /\ log[i].status = "IOError"
           /\ log[i].post = Before(i)

\* C14: Save never fails with NotFound; its status is success, InvalidArgument
\* or the engine's error.
C14_SaveNeverNotFound ==
    \A i \in Calls :
        log[i].op = "save" => log[i].status \in {"OK", "InvalidArgument", "IOError"}

\* C15: no partial success. A Save, IncrementReference or Delete either returns
\* success and the record it returns is the stored one (or the record is
\* removed), or returns a failure and the record is the one from before the
\* call; a call whose put, delete or commit failed is of the second kind.
C15_Committed(i) ==
    /\ log[i].status = "OK"
    /\ IF log[i].op = "save"
       THEN log[i].post = serializeCountAndValue(log[i].count, log[i].value)
       ELSE IF log[i].op = "delete" /\ log[i].count = 0
       THEN log[i].post = Absent
       ELSE /\ Present(Before(i))
            /\ log[i].post = serializeCountAndValue(log[i].count, ValueOf(Before(i)))

C15_Untouched(i) == log[i].status # "OK" /\ log[i].post = Before(i)

C15_NoPartialSuccess ==
    \A i \in Calls :
        Mutating(log[i])
        => /\ C15_Committed(i) \/ C15_Untouched(i)
           /\ log[i].txn # "OK" => C15_Untouched(i)

(* ---- concurrent callers (Spec), continued ---- *)
\* C16: Get has no side effects. The step of a Get(key) changes no record; it
\* returns NotFound when the key has no record and otherwise status ok with
\* exactly the stored value and count (the stored bytes are the count and the
\* value it returns).
C16_GetReturns == Len(log') = Len(log) + 1 /\ log'[Len(log')].op = "get"

C16_GetHasNoSideEffects ==
    [][C16_GetReturns
       => LET e == log'[Len(log')]
          IN  /\ db' = db
              /\ Present(db[e.key])
                 => e.status = "OK" /\ db[e.key] = serializeCountAndValue(e.count, e.out)
              /\ ~Present(db[e.key])
                 => e.status = "NotFound" /\ e.count = 0 /\ e.out = << >>]_vars

C16_Witness ==
    /\ Len(log) = 2
    /\ log[1].op = "get" /\ log[1].status = "OK" /\ log[1].out = <<7>>
    /\ log[2].op = "get" /\ log[2].status = "NotFound"
    /\ db = db0

\* C17: operations on different keys are independent. A key on which no call
\* was started keeps its record; a finished call that is the only call started
\* on its key read the record the key had at the start and its record is still
\* the one it left, whatever the calls on other keys did and in whatever order
\* their steps and commits came.
C17_StartedOn(k) ==
    Cardinality({i \in Calls : log[i].key = k})
    + Cardinality({p \in Procs : pc[p] = "commit" /\ call[p].key = k})

C17_KeysIndependent ==
    /\ \A k \in Keys : C17_StartedOn(k) = 0 => db[k] = db0[k]
    /\ \A i \in Calls :
          C17_StartedOn(log[i].key) = 1
          => log[i].pre = db0[log[i].key] /\ db[log[i].key] = log[i].post

C17_Witness ==
    /\ Len(log) = 2
    /\ log[1].key # log[2].key
    /\ log[1].proc = 2 /\ log[2].proc = 1
    /\ Mutating(log[1]) /\ log[1].status = "OK" /\ log[1].post # log[1].pre
    /\ Mutating(log[2]) /\ log[2].status = "OK" /\ log[2].post # log[2].pre

(* ---- the record codec (CodecSpec) ---- *)
\* C18: record codec round trip and layout. serializeCountAndValue(c, v) is 4
\* bytes holding c (two's complement, low byte first) followed by the bytes of
\* v, of length 4 + |v|, and parseCountAndValue of it returns (c, v).
C18_CountBytes(b, c) ==
    /\ \A n \in 1..4 : b[n] \in 0..255
    /\ b[1] + 256 * b[2] + 65536 * b[3] = c % 16777216
    /\ b[4] = (c \div 16777216) % 256

C18_CodecRoundTrip ==
    /\ codec.stage \in {"serialized", "parsed"}
       => /\ Len(codec.bytes) = 4 + Len(codec.value)
          /\ C18_CountBytes(codec.bytes, codec.count)
          /\ \A n \in 1..Len(codec.value) : codec.bytes[4 + n] = codec.value[n]
    /\ codec.stage = "parsed" => codec.parsed = <<codec.count, codec.value>>

C18_Witness ==
    /\ codec.stage = "parsed"
    /\ codec.count = IntMin
    /\ codec.value = <<0, 255>>
    /\ codec.parsed[2] = <<0, 255>>

(* ---- the store object (LifeSpec) ---- *)
\* C19: durability across the store lifecycle. The record a successful Save,
\* IncrementReference or Delete left under a key is the stored record of that
\* key from then on, also after the store is closed and opened again on the
\* same path, until the next call on the key; Close and Open discard nothing.
C19_LastOn(k) == CHOOSE i \in Calls : log[i].key = k /\ \A j \in Calls : log[j].key = k => j <= i

C19_Durable ==
    \A k \in Keys :
        (\E i \in Calls : log[i].key = k /\ Mutating(log[i]) /\ log[i].status = "OK")
        => db[k] = log[C19_LastOn(k)].post

(* ---- concurrent callers (Spec): the int range ---- *)
\* C20: defined overflow. A Save(key, same value) or IncrementReference(key)
\* on a record whose count is 2^31 - 1 either fails with Overflow and leaves
\* the record, or succeeds with the count still 2^31 - 1; it never stores or
\* returns a negative count.
C20_AtMax(e) ==
    /\ e.op \in {"save", "increment"}
    /\ Present(e.pre)
    /\ CountOf(e.pre) = IntMax
    /\ e.op = "save" => e.value = ValueOf(e.pre)

C20_OverflowDefined ==
    \A i \in Calls :
        C20_AtMax(log[i])
        => \/ log[i].status = "Overflow" /\ log[i].post = log[i].pre
           \/ /\ log[i].status = "OK"
              /\ log[i].count = IntMax
              /\ Present(log[i].post) /\ CountOf(log[i].post) = IntMax

====
